---- MODULE Spec2Model ----
\* A model of src/components/github-tree-generator.tsx (first component of the
\* file, lines 27-175): the pure core generateTree (build loop + renderTree)
\* and the React component state machine around it (handleSubmit).
\*
\* Path entries are modelled after item.path.split('/'): String.split on '/'
\* is a bijection between strings and non-empty sequences of '/'-free tokens
\* (a leading, trailing or doubled slash is an empty token ""), so an input
\* path is a non-empty sequence of segments.
\*
\* JavaScript objects are modelled by identity: an object id is the chain
\* <<base, k1, ..., kn>> of own-property keys by which it was created, where
\* base is the local `tree` of generateTree or one of the built-in objects
\* every `{}` inherits from. `heap` lists the created objects in creation
\* order (own-property insertion order).
EXTENDS Integers, Sequences, FiniteSets, TLC

\* ---------------------------------------------------------------- bounds
\* Total number of path segments in the input of one generateTree call.
MaxTotalSegs == 5
\* Largest maxDepth tried (the smallest is -1).
MaxDepth == 3

\* Segment names; one input takes its names from one of these sets: ordinary
\* names ("a" and the empty token), integer-like names, and names every
\* object inherits from Object.prototype.
SegSets ==
  {{"a", "1"}, {"2", "1"}, {"a", "__proto__"}, {"", "constructor"},
   {"__proto__", "constructor"}}

Depths == (0 - 1)..MaxDepth

\* ------------------------------------------------------- JavaScript values
Undefined == <<"undefined">>
Null      == <<"null">>
Tree      == <<"tree">>
ObjProto  == <<"Object.prototype">>
ObjCtor   == <<"Object">>
FnProto   == <<"Function.prototype">>
FnCtor    == <<"Function">>

\* ToBoolean of a lookup result: undefined and null are falsy, objects truthy.
Truthy(v) == v \notin {Undefined, Null}

\* [[Prototype]] of an object: `{}` literals (the tree and every node the
\* build loop creates) have Object.prototype.
ProtoOf(o) ==
  IF o = ObjProto THEN Null
  ELSE IF o \in {ObjCtor, FnCtor} THEN FnProto
  ELSE ObjProto

\* Own properties the built-ins have from the start, among the segment names
\* of SegSets.
BuiltinOwn(o, k) ==
  IF o = ObjProto /\ k = "constructor" THEN ObjCtor
  ELSE IF o = FnProto /\ k = "constructor" THEN FnCtor
  ELSE Undefined

HasOwn(h, o, k) == \E i \in 1..Len(h) : h[i] = Append(o, k)

\* current[part] as a read: own property, else the prototype chain;
\* __proto__ is the accessor of Object.prototype, answering the receiver's
\* [[Prototype]].
RECURSIVE GetFrom(_, _, _)
GetFrom(h, o, k) ==
  IF HasOwn(h, o, k) THEN Append(o, k)
  ELSE IF BuiltinOwn(o, k) # Undefined THEN BuiltinOwn(o, k)
  ELSE IF ProtoOf(o) = Null THEN Undefined
  ELSE GetFrom(h, ProtoOf(o), k)

Get(h, o, k) == IF k = "__proto__" THEN ProtoOf(o) ELSE GetFrom(h, o, k)

\* ------------------------------------------------------------ build loop
\* index < maxDepth (0-based index).
InDepthNoLimit(index, maxDepth) == TRUE

InDepthOff(index, maxDepth) == index <= maxDepth

InDepth(index, maxDepth) == index < maxDepth

\* One call of the inner forEach callback. st = [heap, current, threw].
\* current[part] = {} on a missing key creates an own property; on
\* Object.prototype with part "__proto__" (value null) the setter throws
\* TypeError (immutable prototype object).
Visit(st, part, index, maxDepth) ==
  IF st.threw \/ ~InDepth(index, maxDepth) THEN st
  ELSE LET v == Get(st.heap, st.current, part) IN
    IF Truthy(v) THEN [st EXCEPT !.current = v]
    ELSE IF part = "__proto__" THEN [st EXCEPT !.threw = TRUE]
    ELSE [heap    |-> Append(st.heap, Append(st.current, part)),
          current |-> Append(st.current, part),
          threw   |-> FALSE]

RECURSIVE WalkParts(_, _, _, _)
WalkParts(st, parts, i, maxDepth) ==
  IF i > Len(parts) THEN st
  ELSE WalkParts(Visit(st, parts[i], i - 1, maxDepth), parts, i + 1, maxDepth)

\* The outer forEach callback for one item: let current = tree, then the walk.
BuildItem(h, parts, maxDepth) ==
  WalkParts([heap |-> h, current |-> Tree, threw |-> FALSE], parts, 1, maxDepth)

RECURSIVE BuildAll(_, _, _, _)
BuildAll(h, ps, i, maxDepth) ==
  IF i > Len(ps) THEN [heap |-> h, threw |-> FALSE]
  ELSE LET st == BuildItem(h, ps[i], maxDepth) IN
    IF st.threw THEN [heap |-> st.heap, threw |-> TRUE]
    ELSE BuildAll(st.heap, ps, i + 1, maxDepth)

\* -------------------------------------------------------------- renderTree
\* Array-index keys (canonical numeric strings) and their values.
IndexValue == ("0" :> 0) @@ ("1" :> 1) @@ ("2" :> 2) @@ ("3" :> 3)

IsArrayIndex(k) == k \in DOMAIN IndexValue

LastOf(o) == o[Len(o)]

IsChildOf(id, node) == Len(id) = Len(node) + 1 /\ SubSeq(id, 1, Len(node)) = node

\* Own keys of node in creation order.
CreatedKeys(h, node) ==
  LET kids == SelectSeq(h, LAMBDA id : IsChildOf(id, node))
  IN [i \in 1..Len(kids) |-> LastOf(kids[i])]

RECURSIVE AscendingIndexKeys(_)
AscendingIndexKeys(S) ==
  IF S = {} THEN <<>>
  ELSE LET m == CHOOSE k \in S : \A j \in S : IndexValue[k] <= IndexValue[j]
       IN <<m>> \o AscendingIndexKeys(S \ {m})

\* OrdinaryOwnPropertyKeys: array-index keys in ascending numeric order,
\* then the other string keys in creation order.
OwnKeys(h, node) ==
  LET created == CreatedKeys(h, node)
      ints    == {created[i] : i \in {j \in 1..Len(created) : IsArrayIndex(created[j])}}
  IN AscendingIndexKeys(ints) \o SelectSeq(created, LAMBDA k : ~IsArrayIndex(k))

\* The box-drawing pieces: Elbow is U+2514 U+2500 U+2500 ' ', Tee is
\* U+251C U+2500 U+2500 ' ', Bar is U+2502 and three spaces, Blank is four
\* spaces.
Elbow == "elbow"
Tee   == "tee"
Bar   == "bar"
Blank == "blank"

IsLastFirst(index, n) == index = 0

IsLast(index, n) == index = n - 1

Connector(isLast) == IF isLast THEN Elbow ELSE Tee

ContinuationSwapped(isLast) == IF isLast THEN Bar ELSE Blank

Continuation(isLast) == IF isLast THEN Blank ELSE Bar

\* A rendered line `${prefix}${connector}${key}\n`; the prefix is kept as
\* its sequence of 4-character blocks. The result string is the sequence of
\* its lines; '' is <<>>.
Line(prefix, isLast, key) ==
  [prefix |-> prefix, connector |-> Connector(isLast), key |-> key]

RECURSIVE RenderTree(_, _, _)
RECURSIVE RenderEntries(_, _, _, _, _)
RenderEntries(h, node, prefix, entries, i) ==
  IF i > Len(entries) THEN <<>>
  ELSE LET key    == entries[i]
           value  == Append(node, key)
           isLast == IsLast(i - 1, Len(entries))
       IN <<Line(prefix, isLast, key)>>
          \o (IF Len(OwnKeys(h, value)) > 0
              THEN RenderTree(h, value, Append(prefix, Continuation(isLast)))
              ELSE <<>>)
          \o RenderEntries(h, node, prefix, entries, i + 1)

RenderTree(h, node, prefix) == RenderEntries(h, node, prefix, OwnKeys(h, node), 1)

\* generateTree as a whole, from the realm (objects hanging off built-ins)
\* it starts in: [threw, result, heap].
GenerateTree(realm, ps, maxDepth) ==
  LET b == BuildAll(realm, ps, 1, maxDepth) IN
  [threw  |-> b.threw,
   result |-> IF b.threw THEN <<>> ELSE RenderTree(b.heap, Tree, <<>>),
   heap   |-> b.heap]

\* ----------------------------------------------------------------- inputs
PathsUpTo(S, n) == UNION {[1..k -> S] : k \in 1..n}

RECURSIVE PathLists(_, _)
PathLists(S, budget) ==
  {<<>>} \cup
  UNION {{<<p>> \o rest : rest \in PathLists(S, budget - Len(p))} : p \in PathsUpTo(S, budget)}

\* ------------------------------------------------------- component logic
\* new URL(repoUrl).pathname.split('/') for the URLs tried; new URL throws
\* TypeError on a string that is no absolute URL.
UrlThrows == <<"TypeError">>

UrlPathnameSplit ==
  ("" :> UrlThrows) @@
  ("github.com/owner/repo" :> UrlThrows) @@
  ("https://github.com" :> <<"", "">>) @@
  ("https://github.com/owner" :> <<"", "owner">>) @@
  ("https://github.com/owner/repo" :> <<"", "owner", "repo">>) @@
  ("https://github.com//owner/repo/" :> <<"", "", "owner", "repo", "">>)

Urls == DOMAIN UrlPathnameSplit

\* .filter(Boolean): the empty tokens go.
PathParts(url) == SelectSeq(UrlPathnameSplit[url], LAMBDA t : t # "")

\* const [owner, repo] = pathParts; if (!owner || !repo) throw
OwnerRepoMissing(url) == Len(PathParts(url)) < 2

\* The <SelectItem> values and parseInt of each.
ParseInt == ("1" :> 1) @@ ("2" :> 2) @@ ("3" :> 3) @@ ("4" :> 4) @@ ("5" :> 5)

DepthOptions == DOMAIN ParseInt

ErrorMessage == "Failed to generate tree. Please check the repository URL and try again."

\* The four fetches of fetchRepoStructure, in order.
Stages == <<"repo", "branch", "commit", "tree">>

\* What the last fetch may resolve to: data.tree as a list of split paths, or
\* a body without a tree array.
NoTree == <<"no tree">>

DataPool ==
  {<<>>,
   <<<<"a", "b">>, <<"c">>>>,
   <<<<"1">>, <<"a", "1">>>>,
   <<<<"__proto__", "a">>, <<"a">>>>,
   <<<<"a">>, <<"__proto__", "__proto__">>>>,
   NoTree}

\* The component's displayed state s = [tree, loading, error].
\* setLoading(true); setError(''); setTree('')
OnStartKeepTree(s) == [s EXCEPT !.loading = TRUE, !.error = ""]

OnStart(s) == [s EXCEPT !.loading = TRUE, !.error = "", !.tree = <<>>]

\* catch: setError(fixed message)
OnCatch(s) == [s EXCEPT !.error = ErrorMessage]

\* setTree(generatedTree)
OnGenerated(s, generatedTree) == [s EXCEPT !.tree = generatedTree]

\* finally: setLoading(false)
OnFinally(s) == [s EXCEPT !.loading = FALSE]

\* <Button type="submit" disabled={loading}>
SubmitAlwaysEnabled(isLoading) == TRUE

SubmitEnabled(isLoading) == ~isLoading

\* What outlives a generateTree call: the objects created under built-ins.
Realm(h) == SelectSeq(h, LAMBDA id : id[1] # "tree")

\* ------------------------------------------------------------------ state
\* paths, maxDepth, idx, status, result: one call of generateTree, stepwise.
\* heap: the objects created so far.
\* repoUrl, depth, tree, loading, error: the component's useState cells.
\* inflight: the handleSubmit calls suspended at an await, each with the
\*   stage it waits for and the depth its closure captured.
\* cause: how the last handleSubmit ended.
VARIABLES paths, maxDepth, heap, idx, status, result,
          repoUrl, depth, tree, loading, error, inflight, cause

coreVars == <<paths, maxDepth, idx, status, result>>
uiVars == <<repoUrl, depth, tree, loading, error, inflight, cause>>
vars == <<paths, maxDepth, heap, idx, status, result,
          repoUrl, depth, tree, loading, error, inflight, cause>>

\* useState initial values.
InitComponent ==
  /\ repoUrl = ""
  /\ depth = "3"
  /\ tree = <<>>
  /\ loading = FALSE
  /\ error = ""
  /\ inflight = <<>>
  /\ cause = "none"

Init ==
  /\ \E S \in SegSets : paths \in PathLists(S, MaxTotalSegs)
  /\ maxDepth \in Depths
  /\ heap = <<>>
  /\ idx = 0
  /\ status = "build"
  /\ result = <<>>
  /\ InitComponent

\* data.tree.forEach callback for item idx.
BuildStep ==
  /\ status = "build"
  /\ idx < Len(paths)
  /\ LET st == BuildItem(heap, paths[idx + 1], maxDepth) IN
       /\ heap' = st.heap
       /\ status' = IF st.threw THEN "threw" ELSE "build"
       /\ idx' = IF st.threw THEN idx ELSE idx + 1
  /\ UNCHANGED <<paths, maxDepth, result>>
  /\ UNCHANGED uiVars

\* return renderTree(tree)
Render ==
  /\ status = "build"
  /\ idx = Len(paths)
  /\ result' = RenderTree(heap, Tree, <<>>)
  /\ status' = "done"
  /\ UNCHANGED <<paths, maxDepth, heap, idx>>
  /\ UNCHANGED uiVars

Next == BuildStep \/ Render

Spec == Init /\ [][Next]_vars

\* ------------------------------------------------------------ the component
InitUI ==
  /\ paths = <<>>
  /\ maxDepth = 0
  /\ heap = <<>>
  /\ idx = 0
  /\ status = "build"
  /\ result = <<>>
  /\ InitComponent

Shown == [tree |-> tree, loading |-> loading, error |-> error]

Show(s) ==
  /\ tree' = s.tree
  /\ loading' = s.loading
  /\ error' = s.error

RemoveAt(q, i) == SubSeq(q, 1, i - 1) \o SubSeq(q, i + 1, Len(q))

\* onChange of the URL input
SetRepoUrl ==
  /\ \E u \in Urls : repoUrl' = u
  /\ UNCHANGED <<depth, tree, loading, error, inflight, cause, heap>>
  /\ UNCHANGED coreVars

\* onValueChange of the depth select
SetDepth ==
  /\ \E d \in DepthOptions : depth' = d
  /\ UNCHANGED <<repoUrl, tree, loading, error, inflight, cause, heap>>
  /\ UNCHANGED coreVars

\* handleSubmit up to its first await: the three resets, the URL parsing and
\* the owner/repo check; a throw there runs catch and finally at once.
Submit ==
  /\ SubmitEnabled(loading)
  /\ LET started == OnStart(Shown) IN
       IF UrlPathnameSplit[repoUrl] = UrlThrows \/ OwnerRepoMissing(repoUrl)
       THEN /\ Show(OnFinally(OnCatch(started)))
            /\ cause' = IF UrlPathnameSplit[repoUrl] = UrlThrows THEN "url" ELSE "format"
            /\ inflight' = inflight
       ELSE /\ Show(started)
            /\ cause' = "pending"
            /\ inflight' = Append(inflight, [stage |-> 1, depth |-> depth])
  /\ UNCHANGED <<repoUrl, depth, heap>>
  /\ UNCHANGED coreVars

\* One of the first three fetches answers ok with a usable body: the next
\* fetch is sent.
FetchOk ==
  /\ \E i \in 1..Len(inflight) :
       /\ inflight[i].stage < Len(Stages)
       /\ inflight' = [inflight EXCEPT ![i].stage = @ + 1]
  /\ UNCHANGED <<repoUrl, depth, tree, loading, error, cause, heap>>
  /\ UNCHANGED coreVars

\* A fetch answers not-ok, rejects, or its body cannot be read: the error
\* reaches the catch of handleSubmit, then finally.
FetchFail ==
  /\ \E i \in 1..Len(inflight) : \E why \in {"notok", "reject"} :
       /\ inflight' = RemoveAt(inflight, i)
       /\ cause' = why
       /\ Show(OnFinally(OnCatch(Shown)))
  /\ UNCHANGED <<repoUrl, depth, heap>>
  /\ UNCHANGED coreVars

\* The tree fetch answers ok: generateTree(data, parseInt(depth)), then
\* setTree, or catch if it throws; finally.
TreeArrives ==
  /\ \E i \in 1..Len(inflight) : \E data \in DataPool :
       /\ inflight[i].stage = Len(Stages)
       /\ inflight' = RemoveAt(inflight, i)
       /\ IF data = NoTree
          THEN /\ Show(OnFinally(OnCatch(Shown)))
               /\ cause' = "core"
               /\ heap' = heap
          ELSE LET g == GenerateTree(heap, data, ParseInt[inflight[i].depth]) IN
               /\ Show(OnFinally(IF g.threw THEN OnCatch(Shown)
                                 ELSE OnGenerated(Shown, g.result)))
               /\ cause' = IF g.threw THEN "core" ELSE "ok"
               /\ heap' = Realm(g.heap)
  /\ UNCHANGED <<repoUrl, depth>>
  /\ UNCHANGED coreVars

NextUI == SetRepoUrl \/ SetDepth \/ Submit \/ FetchOk \/ FetchFail \/ TreeArrives

SpecUI == InitUI /\ [][NextUI]_vars

\* ------------------------------------------------- reading a rendered text
Level(l) == Len(l.prefix)

\* Lines nest as an outline: the first is at level 0 and a line is at most
\* one level deeper than the line before it.
Outline(r) ==
  /\ Len(r) > 0 => Level(r[1]) = 0
  /\ \A i \in 1..(Len(r) - 1) : Level(r[i + 1]) <= Level(r[i]) + 1

\* The line above line i that is its ancestor at level j: the nearest
\* earlier line at level j.
AncIdx(r, i, j) ==
  CHOOSE a \in 1..(i - 1) :
    /\ Level(r[a]) = j
    /\ \A b \in (a + 1)..(i - 1) : Level(r[b]) # j

\* The keys from the top level down to line i.
ChainKeys(r, i) ==
  [j \in 1..(Level(r[i]) + 1) |->
     IF j = Level(r[i]) + 1 THEN r[i].key ELSE r[AncIdx(r, i, j - 1)].key]

NodeOf(c) == Tree \o c

\* The nodes renderTree walks: the tree and what was created under it.
TreeNodes(h) == {h[i] : i \in {j \in 1..Len(h) : h[j][1] = "tree"}}

IsPrefixOf(c, p) == Len(c) <= Len(p) /\ SubSeq(p, 1, Len(c)) = c

PathSet(ps) == {ps[i] : i \in 1..Len(ps)}

\* The first input path that starts with chain c (0 when there is none).
FirstSeen(ps, c) ==
  IF \E i \in 1..Len(ps) : IsPrefixOf(c, ps[i])
  THEN CHOOSE i \in 1..Len(ps) :
         /\ IsPrefixOf(c, ps[i])
         /\ \A j \in 1..(i - 1) : ~IsPrefixOf(c, ps[j])
  ELSE 0

Done == status = "done"

\* C1: for maxDepth d >= 1 every emitted line is at a nesting level <= d-1
\* and its key is the segment at that index (< d) of some input path, placed
\* under that path's earlier segments.
C1_LinesWithinDepth ==
  (Done /\ maxDepth >= 1) =>
    /\ Outline(result)
    /\ \A i \in 1..Len(result) :
         /\ Level(result[i]) <= maxDepth - 1
         /\ \E p \in PathSet(paths) : IsPrefixOf(ChainKeys(result, i), p)

C1_Witness ==
  /\ Done /\ maxDepth >= 2
  /\ \E p \in PathSet(paths) : Len(p) > maxDepth
  /\ \E i \in 1..Len(result) : Level(result[i]) = maxDepth - 1

\* C7: for maxDepth <= 0 no segment is visited, the root stays empty, no
\* error is raised and the result is the empty string.
C7_NonPositiveDepthEmpty ==
  maxDepth <= 0 =>
    /\ status # "threw"
    /\ heap = <<>>
    /\ Done => result = <<>>

C7_Witness == Done /\ maxDepth <= 0 /\ Len(paths) >= 2 /\ idx = Len(paths)

\* The indices of the lines that render the node with key chain c.
LinesOf(r, c) == {i \in 1..Len(r) : ChainKeys(r, i) = c}

\* Line i is the last of its siblings in the text: the next line that is not
\* deeper, if any, is shallower.
LastSiblingInText(r, i) ==
  \A j \in (i + 1)..Len(r) :
    (/\ Level(r[j]) <= Level(r[i])
     /\ \A b \in (i + 1)..(j - 1) : Level(r[b]) > Level(r[i]))
    => Level(r[j]) < Level(r[i])

\* C3: under every node with n >= 1 children each child has one line; the
\* child at position n-1 has the elbow, the n-1 others the tee; in the text,
\* a line has the elbow iff it is the last of its siblings, at every level.
C3_OneElbowPerNode ==
  Done =>
    /\ Outline(result)
    /\ \A node \in {Tree} \cup TreeNodes(heap) :
         LET ks == OwnKeys(heap, node) IN
         \A p \in 1..Len(ks) :
           LET ls == LinesOf(result, Tail(node) \o <<ks[p]>>) IN
           /\ Cardinality(ls) = 1
           /\ \A i \in ls :
                result[i].connector = IF p = Len(ks) THEN Elbow ELSE Tee
    /\ \A i \in 1..Len(result) :
         /\ result[i].connector \in {Elbow, Tee}
         /\ result[i].connector = Elbow <=> LastSiblingInText(result, i)

C3_Witness ==
  /\ Done
  /\ Len(OwnKeys(heap, Tree)) >= 2
  /\ \E node \in TreeNodes(heap) : Len(OwnKeys(heap, node)) >= 2

\* C9: the text is the pre-order walk of the tree: every node has exactly one
\* line, a node with children is directly followed by its first child,
\* siblings come in the order of the node's entries, and the prefix of a line
\* at level k has k blocks, the j-th being the bar iff the ancestor at level j
\* is not the last entry of its parent (blank otherwise).
C9_PreorderAndPrefix ==
  Done =>
    /\ Outline(result)
    /\ Len(result) = Cardinality(TreeNodes(heap))
    /\ \A i \in 1..Len(result) :
         LET c  == ChainKeys(result, i)
             ks == OwnKeys(heap, NodeOf(c))
         IN
         /\ NodeOf(c) \in TreeNodes(heap)
         /\ Len(ks) > 0 =>
              /\ i < Len(result)
              /\ ChainKeys(result, i + 1) = Append(c, ks[1])
         /\ \A q \in 1..(Len(ks) - 1) :
              \A a \in LinesOf(result, Append(c, ks[q])) :
                \A b \in LinesOf(result, Append(c, ks[q + 1])) : a < b
         /\ \A j \in 1..Level(result[i]) :
              LET sibs == OwnKeys(heap, NodeOf(SubSeq(c, 1, j - 1)))
              IN result[i].prefix[j] =
                   IF c[j] = sibs[Len(sibs)] THEN Blank ELSE Bar
    /\ \A q \in 1..(Len(OwnKeys(heap, Tree)) - 1) :
         \A a \in LinesOf(result, <<OwnKeys(heap, Tree)[q]>>) :
           \A b \in LinesOf(result, <<OwnKeys(heap, Tree)[q + 1]>>) : a < b

C9_Witness ==
  /\ Done
  /\ \E i \in 1..Len(result) :
       /\ Level(result[i]) = 2
       /\ result[i].prefix = <<Bar, Blank>>
  /\ \E i \in 1..Len(result) :
       /\ Level(result[i]) = 1
       /\ result[i].prefix = <<Blank>>

\* The segment chains of length 1..d that start an input path.
Prefixes(ps, d) ==
  UNION {{SubSeq(ps[i], 1, k) : k \in {n \in 1..Len(ps[i]) : n <= d}} : i \in 1..Len(ps)}

\* C2: siblings are rendered in the order in which their segment was first
\* met while scanning the input paths, whatever the key looks like.
C2_FirstSeenOrder ==
  Done =>
    \A i \in 1..Len(result) : \A j \in (i + 1)..Len(result) :
      LET ci == ChainKeys(result, i)
          cj == ChainKeys(result, j)
      IN (Len(ci) = Len(cj) /\ SubSeq(ci, 1, Len(ci) - 1) = SubSeq(cj, 1, Len(cj) - 1))
           => FirstSeen(paths, ci) < FirstSeen(paths, cj)

\* C5: the build loop never raises an error and, for maxDepth >= 1, leaves
\* the first segment of every input path as a key of the root node.
C5_BuilderNeverFails ==
  /\ status # "threw"
  /\ (maxDepth >= 1 /\ idx = Len(paths)) =>
       \A p \in PathSet(paths) : HasOwn(heap, Tree, p[1])

TopLines(r) == SelectSeq(r, LAMBDA l : Level(l) = 0)

RECURSIVE IsSubsequence(_, _)
IsSubsequence(s, t) ==
  IF s = <<>> THEN TRUE
  ELSE IF t = <<>> THEN FALSE
  ELSE IF Head(s) = Head(t) THEN IsSubsequence(Tail(s), Tail(t))
  ELSE IsSubsequence(s, Tail(t))

\* C6: for depths 1 <= d1 <= d2 the top-level lines at d1 appear, with the
\* same connector and key and in the same order, among the top-level lines
\* at d2, and the hierarchy built at d1 is contained in the one built at d2.
C6_MonotoneInDepth ==
  (status \in {"done", "threw"} /\ maxDepth >= 1) =>
    \A d1 \in 1..maxDepth :
      LET g1 == GenerateTree(<<>>, paths, d1) IN
      ~g1.threw =>
        /\ IsSubsequence(TopLines(g1.result), TopLines(result))
        /\ Done => TreeNodes(g1.heap) \subseteq TreeNodes(heap)

\* C8: for maxDepth d >= 1 the output has exactly one line per distinct
\* segment prefix of length 1..d of the input paths.
C8_OneLinePerPrefix ==
  (Done /\ maxDepth >= 1) =>
    /\ Len(result) = Cardinality(Prefixes(paths, maxDepth))
    /\ \A c \in Prefixes(paths, maxDepth) : Cardinality(LinesOf(result, c)) = 1

\* C4: a submission that failed upstream of generateTree (URL parsing, the
\* owner/repo check, a fetch not ok or rejected) has ended with the fixed
\* message, no tree and loading false, whatever the cause.
C4_UpstreamFailureShown ==
  (cause \in {"url", "format", "notok", "reject"} /\ inflight = <<>>) =>
    /\ error = ErrorMessage
    /\ tree = <<>>
    /\ loading = FALSE

C4_Witness ==
  /\ cause = "notok"
  /\ inflight = <<>>
  /\ heap # <<>>
  /\ error = ErrorMessage

\* C10: at most one handleSubmit is in flight, loading is true exactly while
\* one is, and the error and the tree are never both shown.
C10_SingleFlight ==
  /\ Len(inflight) <= 1
  /\ loading <=> Len(inflight) = 1
  /\ ~(error # "" /\ tree # <<>>)

C10_Witness ==
  /\ Len(inflight) = 1
  /\ loading
  /\ inflight[1].stage = Len(Stages)
  /\ cause = "pending"
  /\ heap # <<>>

====
